---- MODULE Spec2Model ----
(***************************************************************************)
(* ptrcmp: a go/analysis pass that reports comparisons between two         *)
(* pointers to basic types.  The model follows src/main.go: parseDir loads *)
(* the packages of a directory and runs the analyzer on each of them; run  *)
(* visits every binary expression of a package in pre-order and reports    *)
(* the qualifying ones through pass.Report, which parseDir formats and     *)
(* appends to the results list.                                            *)
(***************************************************************************)
EXTENDS Naturals, Sequences, FiniteSets

(***************************************************************************)
(* go/types types.  A type is the sequence of its layers, outermost first: *)
(* *int is <<Pointer, Basic int>>, a defined type ID with underlying int   *)
(* is <<Named ID, Basic int>>.  The empty sequence is the nil types.Type   *)
(* that TypesInfo.TypeOf returns for an expression it has no entry for.    *)
(***************************************************************************)
Layer(c, n) == [ctor |-> c, name |-> n]

NoType == <<>>

PointerTo(t) == <<Layer("Pointer", "*")>> \o t

NamedType(n, u) == <<Layer("Named", n)>> \o u

AliasType(n, t) == <<Layer("Alias", n)>> \o t

TInt == <<Layer("Basic", "int")>>

TString == <<Layer("Basic", "string")>>

TBool == <<Layer("Basic", "bool")>>

TUntypedNil == <<Layer("Basic", "untyped nil")>>

TStruct == <<Layer("Struct", "struct{}")>>

TArray == <<Layer("Array", "[2]int")>>

TSlice == <<Layer("Slice", "[]int")>>

TMap == <<Layer("Map", "map[string]int")>>

TInterface == <<Layer("Interface", "interface{}")>>

TSignature == <<Layer("Signature", "func()")>>

TChan == <<Layer("Chan", "chan int")>>

\* type ID int
TNamedID == NamedType("example.ID", TInt)

\* type A = int
TAliasA == AliasType("example.A", TInt)

\* type S struct{}
TNamedS == NamedType("example.S", TStruct)

\* type P *int
TNamedP == NamedType("example.P", PointerTo(TInt))

\* type Q = *int
TAliasQ == AliasType("example.Q", PointerTo(TInt))

\* The pointee types the operands of the modelled programs point to.
Pointees ==
    { TInt, TString, TNamedID, TAliasA, TNamedS, TStruct, TArray, TSlice, TMap,
      TInterface, TSignature, TChan, PointerTo(TInt), TNamedP }

\* The static types TypesInfo records for the operands of the modelled programs.
OperandTypes ==
    { NoType, TInt, TBool, TUntypedNil, TNamedID, TNamedS, TNamedP, TAliasQ }
        \cup { PointerTo(p) : p \in Pointees }

\* types.Type.Underlying: a defined type answers with the underlying type of
\* its declaration, an alias with the underlying type of the type it denotes,
\* every other type with itself.
RECURSIVE Underlying(_)
Underlying(t) ==
    IF t # NoType /\ Head(t).ctor \in {"Named", "Alias"}
    THEN Underlying(Tail(t))
    ELSE t

\* (*types.Pointer).Elem
Elem(t) == Tail(t)

\* The type assertion exprType.(*types.Pointer): the dynamic type of the
\* value is *types.Pointer itself.
IsTypesPointer(t) == t # NoType /\ Head(t).ctor = "Pointer"

\* The type assertion t.(*types.Basic)
IsTypesBasic(t) == t # NoType /\ Head(t).ctor = "Basic"

\* types.Type.String, as fmt's %v prints a type: a defined or aliased type by
\* its qualified name, a pointer as * and its element.
RECURSIVE TypeString(_)
TypeString(t) ==
    IF t = NoType THEN "<nil>"
    ELSE IF Head(t).ctor = "Pointer" THEN "*" \o TypeString(Tail(t))
    ELSE Head(t).name

\* map[K]V
MapOf(k, v) == <<Layer("Map", "map[" \o TypeString(k) \o "]" \o TypeString(v))>>

(***************************************************************************)
(* go/ast expressions.  A node carries the position of its own token (an   *)
(* identifier's NamePos, a binary expression's OpPos, an index             *)
(* expression's Lbrack, a star expression's Star), the type TypesInfo      *)
(* records for it, and its operands.                                       *)
(***************************************************************************)
Ident(t) == [kind |-> "Ident", op |-> "", typ |-> t, at |-> 0, kids |-> <<>>]

StarExpr(x, t) == [kind |-> "StarExpr", op |-> "", typ |-> t, at |-> 0, kids |-> <<x>>]

IndexExpr(x, i, t) == [kind |-> "IndexExpr", op |-> "", typ |-> t, at |-> 0, kids |-> <<x, i>>]

BinaryExpr(o, x, y, t) == [kind |-> "BinaryExpr", op |-> o, typ |-> t, at |-> 0, kids |-> <<x, y>>]

\* The operators of token.EQL, token.NEQ, token.LSS, token.GTR, token.LEQ, token.GEQ
ComparisonOps == {"EQL", "NEQ", "LSS", "GTR", "LEQ", "GEQ"}

\* Logical, arithmetic, bitwise and shift operators of go/token
OtherOps == {"LAND", "LOR", "ADD", "AND", "SHL"}

Ops == ComparisonOps \cup OtherOps

\* The number of source positions an expression occupies: one per token.
RECURSIVE Width(_)
Width(e) ==
    CASE e.kind = "Ident" -> 1
      [] e.kind = "StarExpr" -> 1 + Width(e.kids[1])
      [] e.kind = "IndexExpr" -> Width(e.kids[1]) + 1 + Width(e.kids[2]) + 1
      [] e.kind = "BinaryExpr" -> Width(e.kids[1]) + 1 + Width(e.kids[2])

\* The parser's positions for an expression whose first token is at base.
RECURSIVE Layout(_, _)
Layout(e, base) ==
    CASE e.kind = "Ident" -> [e EXCEPT !.at = base]
      [] e.kind = "StarExpr" ->
            [e EXCEPT !.at = base, !.kids = <<Layout(e.kids[1], base + 1)>>]
      [] e.kind \in {"IndexExpr", "BinaryExpr"} ->
            [e EXCEPT !.at = base + Width(e.kids[1]),
                      !.kids = <<Layout(e.kids[1], base),
                                 Layout(e.kids[2], base + Width(e.kids[1]) + 1)>>]

\* ast.Node.Pos: the position of the first character of the node.  For a
\* binary expression and an index expression that is X.Pos().
RECURSIVE Pos(_)
Pos(e) ==
    IF e.kind \in {"IndexExpr", "BinaryExpr"} THEN Pos(e.kids[1]) ELSE e.at

\* The expressions of a tree.
RECURSIVE SubExprs(_)
SubExprs(e) == {e} \cup UNION { SubExprs(e.kids[k]) : k \in 1..Len(e.kids) }

\* The concatenation of a sequence of sequences.
RECURSIVE Flatten(_)
Flatten(qs) == IF qs = << >> THEN << >> ELSE Head(qs) \o Flatten(Tail(qs))

\* (*ast.BinaryExpr).X and .Y
X(e) == e.kids[1]

Y(e) == e.kids[2]

(***************************************************************************)
(* The inputs: what packages.Load returns for the directory.               *)
(***************************************************************************)
\* The number of statements of a program of several files and packages.
MaxStmts == 3

\* The operands of the single-comparison programs: a variable of every
\* operand type, and dereferences *p of pointer variables.
Deref(t) == StarExpr(Ident(t), Elem(t))

Operands ==
    { Ident(t) : t \in OperandTypes }
        \cup { Deref(t) : t \in { PointerTo(TInt), PointerTo(PointerTo(TInt)),
                                  PointerTo(TNamedS) } }

\* x op y
FlatStmts == { BinaryExpr(o, x, y, TBool) : o \in Ops, x \in Operands, y \in Operands }

NestOps == {"EQL", "ADD"}

NestTypes == { PointerTo(TInt), TInt }

\* m[a op2 b] op1 c, c op1 m[a op2 b] and a op2 b op1 c
NestedStmts ==
    UNION { { BinaryExpr(o1, IndexExpr(Ident(MapOf(TBool, u)), BinaryExpr(o2, Ident(t), Ident(t), TBool), u),
                         Ident(u), TBool),
              BinaryExpr(o1, Ident(u),
                         IndexExpr(Ident(MapOf(TBool, u)), BinaryExpr(o2, Ident(t), Ident(t), TBool), u), TBool),
              BinaryExpr(o1, BinaryExpr(o2, Ident(t), Ident(t), TBool), Ident(u), TBool) }
            : <<o1, o2, t, u>> \in NestOps \X NestOps \X NestTypes \X NestTypes }

\* The statements of the programs of several statements: p == q on *int,
\* *p == *q, m[p == q] == r with every operand a *int, and a comparison with
\* an operand TypesInfo has no type for.
SmallStmts ==
    { BinaryExpr("EQL", Ident(PointerTo(TInt)), Ident(PointerTo(TInt)), TBool),
      BinaryExpr("EQL", Deref(PointerTo(TInt)), Deref(PointerTo(TInt)), TBool),
      BinaryExpr("EQL", IndexExpr(Ident(MapOf(TBool, PointerTo(TInt))),
                                  BinaryExpr("NEQ", Ident(PointerTo(TInt)), Ident(PointerTo(TInt)), TBool),
                                  PointerTo(TInt)),
                 Ident(PointerTo(TInt)), TBool),
      BinaryExpr("EQL", Ident(NoType), Ident(PointerTo(TInt)), TBool) }

\* A statement with where it starts: in the file of the statement before it,
\* in a new file of the same package, or in a new package.
Breaks == {"same", "file", "pkg"}

Tagged(stmts) == [stmt : stmts, brk : Breaks]

RECURSIVE TaggedSeqs(_, _)
TaggedSeqs(stmts, n) ==
    IF n = 0 THEN { <<>> }
    ELSE LET shorter == TaggedSeqs(stmts, n - 1)
         IN  shorter \cup
             { Append(s, u) : s \in { q \in shorter : Len(q) = n - 1 },
                              u \in { v \in Tagged(stmts) : n = 1 => v.brk = "pkg" } }

\* The sources of a directory: its statements, and whether the files were
\* added to the token.FileSet in the order of the packages or in the reverse
\* order (packages.Load parses the files concurrently).
Sources ==
    { [units |-> s, rev |-> FALSE] : s \in TaggedSeqs(FlatStmts \cup NestedStmts, 1) }
        \cup { [units |-> s, rev |-> r] : s \in TaggedSeqs(SmallStmts, MaxStmts), r \in BOOLEAN }

RECURSIVE SumSeq(_)
SumSeq(q) == IF q = <<>> THEN 0 ELSE Head(q) + SumSeq(Tail(q))

RECURSIVE Itoa(_)
Itoa(n) ==
    IF n < 10
    THEN <<"0", "1", "2", "3", "4", "5", "6", "7", "8", "9">>[n + 1]
    ELSE Itoa(n \div 10) \o Itoa(n % 10)

\* The number of the file, and of the package, of the i-th statement.
FileOf(s, i) == Cardinality({ j \in 1..i : j = 1 \/ s[j].brk # "same" })

PkgOf(s, i) == Cardinality({ j \in 1..i : j = 1 \/ s[j].brk = "pkg" })

NumFiles(s) == IF s = <<>> THEN 0 ELSE FileOf(s, Len(s))

NumPkgs(s) == IF s = <<>> THEN 0 ELSE PkgOf(s, Len(s))

Least(S) == CHOOSE m \in S : \A k \in S : m <= k

\* The statements of file f, in order.
StmtsOfFile(s, f) ==
    LET idx == { i \in 1..Len(s) : FileOf(s, i) = f }
    IN  [k \in 1..Cardinality(idx) |-> s[Least(idx) + k - 1].stmt]

\* One statement a line: the offsets at which the lines of a file start, and
\* the size of the file.
LineStarts(stmts) ==
    [i \in 1..Len(stmts) |-> SumSeq([j \in 1..(i - 1) |-> Width(stmts[j]) + 1])]

FileSize(stmts) == SumSeq([j \in 1..Len(stmts) |-> Width(stmts[j]) + 1])

\* (*token.FileSet).AddFile: a file's base is one past the end of the file
\* added before it; the first base is 1.
FileBase(src, f) ==
    LET n == NumFiles(src.units)
        before == IF src.rev THEN (f + 1)..n ELSE 1..(f - 1)
        sizes == [g \in 1..n |->
                    IF g \in before THEN FileSize(StmtsOfFile(src.units, g)) + 1 ELSE 0]
    IN  1 + SumSeq(sizes)

\* A parsed file: its token.File (name, base, size, lines) and its statements.
ParseFile(src, f) ==
    LET stmts == StmtsOfFile(src.units, f)
        base == FileBase(src, f)
        lines == LineStarts(stmts)
        pkg == PkgOf(src.units, Least({ i \in 1..Len(src.units) : FileOf(src.units, i) = f }))
    IN  [Name |-> "pkg" \o Itoa(pkg) \o "/file" \o Itoa(f) \o ".go",
         base |-> base,
         size |-> FileSize(stmts),
         lines |-> lines,
         stmts |-> [i \in 1..Len(stmts) |-> Layout(stmts[i], base + lines[i])]]

\* The type errors packages.Load records on a package (pkg.Errors): one for
\* every statement with an expression the type checker could give no type.
TypeErrors(files) ==
    Flatten([f \in 1..Len(files) |->
        Flatten([i \in 1..Len(files[f].stmts) |->
            IF \E e \in SubExprs(files[f].stmts[i]) : e.typ = NoType
            THEN << files[f].Name \o ":" \o Itoa(i) \o ": type error" >>
            ELSE << >>])])

\* packages.Load: the packages of the directory, each with its files
\* (Syntax) and its errors (Errors), in the order of the directory.
Load(src) ==
    LET s == src.units
        filesOf(p) == { f \in 1..NumFiles(s) :
                          \E i \in 1..Len(s) : FileOf(s, i) = f /\ PkgOf(s, i) = p }
        syntax(p) == [k \in 1..Cardinality(filesOf(p)) |->
                        ParseFile(src, Least(filesOf(p)) + k - 1)]
    IN  [p \in 1..NumPkgs(s) |->
            [Name |-> "pkg" \o Itoa(p),
             Syntax |-> syntax(p),
             Errors |-> TypeErrors(syntax(p))]]

(***************************************************************************)
(* The analyzer                                                            *)
(***************************************************************************)
VARIABLES
    dir,        \* the directory given to parseDir: its sources, and whether loading them fails
    pc,         \* where parseDir is: "start", "range", "run", "done"
    pkgs,       \* the packages packages.Load returned
    pi,         \* the index of the package the range loop is at
    events,     \* the inspector of the current package: its binary expressions in traversal order
    ei,         \* the index of the node Preorder calls run's function on next
    reported,   \* the analysis.Diagnostic values passed to pass.Report so far
    results,    \* parseDir's results
    ret,        \* what parseDir returned
    logged      \* the lines written with log.Println and log.Printf

vars == <<dir, pc, pkgs, pi, events, ei, reported, results, ret, logged>>

\* pass.TypesInfo.TypeOf(expr): the recorded type, nil if there is none.
TypeOf(expr) == expr.typ

\* A variant of isPointerType that takes every expression with a recorded
\* type for a pointer.
isPointerTypeAnyResolved(expr) == TypeOf(expr) # NoType

\* isPointerType: false without a recorded type, else whether the type is a
\* *types.Pointer.
isPointerType(expr) ==
    LET exprType == TypeOf(expr)
    IN  IF exprType = NoType THEN FALSE ELSE IsTypesPointer(exprType)

\* getUnderlyingType: nil without a recorded type, the element type of a
\* pointer, else the type itself.
getUnderlyingType(expr) ==
    LET exprType == TypeOf(expr)
    IN  IF exprType = NoType THEN NoType
        ELSE IF IsTypesPointer(exprType) THEN Elem(exprType)
        ELSE exprType

\* A variant of isBasicType that asserts *types.Basic on the type itself
\* instead of its underlying type.
isBasicTypeNoUnderlying(t) ==
    IF t = NoType THEN FALSE ELSE IsTypesBasic(t)

\* isBasicType: false for nil, else whether the underlying type is a
\* *types.Basic.
isBasicType(t) ==
    IF t = NoType THEN FALSE ELSE IsTypesBasic(Underlying(t))

\* A variant of the switch that has the equality operators only.
isComparisonEqualityOnly(o) == o \in {"EQL", "NEQ"}

\* The case of the switch on binaryExpr.Op
isComparison(o) == o \in {"EQL", "NEQ", "LSS", "GTR", "LEQ", "GEQ"}

\* A variant of the condition that skips the comparison only when neither
\* pointee is basic.
bothBasicEither(leftType, rightType) == ~(~isBasicType(leftType) /\ ~isBasicType(rightType))

\* The condition under which both pointee types make the comparison reportable
bothBasic(leftType, rightType) == isBasicType(leftType) /\ isBasicType(rightType)

\* A variant of the message with the operands' types the other way round.
diagnosticMessageSwapped(leftType, rightType) ==
    "comparing pointers to basic types: " \o TypeString(rightType) \o " and " \o TypeString(leftType)

\* fmt.Sprintf("comparing pointers to basic types: %v and %v", leftType, rightType)
diagnosticMessage(leftType, rightType) ==
    "comparing pointers to basic types: " \o TypeString(leftType) \o " and " \o TypeString(rightType)

\* A variant that reports at the operator: binaryExpr.OpPos
diagnosticPosOperator(binaryExpr) == binaryExpr.at

\* Pos: binaryExpr.Pos()
diagnosticPos(binaryExpr) == Pos(binaryExpr)

\* A variant of run's function that skips a comparison only when an operand
\* is known not to be a pointer to a basic type.
VisitUnlessKnown(n) ==
    IF n.kind = "BinaryExpr" /\ isComparison(n.op)
       /\ \A e \in {X(n), Y(n)} :
             TypeOf(e) = NoType \/ (isPointerType(e) /\ isBasicType(getUnderlyingType(e)))
    THEN << [Pos |-> diagnosticPos(n),
             Message |-> diagnosticMessage(getUnderlyingType(X(n)), getUnderlyingType(Y(n)))] >>
    ELSE << >>

\* The function run hands to Preorder, applied to node n: the diagnostics it
\* passes to pass.Report.
Visit(n) ==
    IF n.kind = "BinaryExpr" /\ isComparison(n.op)
       /\ isPointerType(X(n)) /\ isPointerType(Y(n))
       /\ bothBasic(getUnderlyingType(X(n)), getUnderlyingType(Y(n)))
    THEN << [Pos |-> diagnosticPos(n),
             Message |-> diagnosticMessage(getUnderlyingType(X(n)), getUnderlyingType(Y(n)))] >>
    ELSE << >>

\* A variant of the traversal that visits a node after its operands.
RECURSIVE Postorder(_)
Postorder(e) ==
    LET below == IF Len(e.kids) = 0 THEN << >>
                 ELSE IF Len(e.kids) = 1 THEN Postorder(e.kids[1])
                 ELSE Postorder(e.kids[1]) \o Postorder(e.kids[2])
    IN  IF e.kind = "BinaryExpr" THEN below \o <<e>> ELSE below

\* (*inspector.Inspector).Preorder with the node filter *ast.BinaryExpr: the
\* binary expressions of a tree, a node before its operands, the operands
\* from left to right.
RECURSIVE Preorder(_)
Preorder(e) ==
    LET below == IF Len(e.kids) = 0 THEN << >>
                 ELSE IF Len(e.kids) = 1 THEN Preorder(e.kids[1])
                 ELSE Preorder(e.kids[1]) \o Preorder(e.kids[2])
    IN  IF e.kind = "BinaryExpr" THEN <<e>> \o below ELSE below

\* inspect.Analyzer.Run: inspector.New(pass.Files), the traversal of the
\* files of the package in their order.  It returns no error.
InspectRun(pkg) ==
    [result |-> Flatten([f \in 1..Len(pkg.Syntax) |->
                            Flatten([i \in 1..Len(pkg.Syntax[f].stmts) |->
                                        Preorder(pkg.Syntax[f].stmts[i])])]),
     err |-> FALSE]

\* (*token.FileSet).Position: the file the position lies in, the line of
\* that file that holds its offset, and the column in that line.
Position(ps, p) ==
    LET files == Flatten([k \in 1..Len(ps) |-> ps[k].Syntax])
        file == CHOOSE f \in { files[k] : k \in 1..Len(files) } :
                    f.base <= p /\ p <= f.base + f.size
        offset == p - file.base
        line == CHOOSE i \in 1..Len(file.lines) :
                    /\ file.lines[i] <= offset
                    /\ \A j \in 1..Len(file.lines) : file.lines[j] <= offset => j <= i
    IN  [Filename |-> file.Name, Line |-> line, Column |-> offset - file.lines[line] + 1]

\* fmt.Sprintf("%s:%d:%d: %s\n", pos.Filename, pos.Line, pos.Column, d.Message):
\* the fields of the line, in the order they are printed.
formatResult(position, message) ==
    [Filename |-> position.Filename, Line |-> position.Line,
     Column |-> position.Column, Message |-> message]

\* A variant that keeps the latest result only.
appendResultOverwrite(rs, r) == <<r>>

\* results = append(results, ...)
appendResult(rs, r) == Append(rs, r)

\* pass.Report applied to the diagnostics of one call of run's function.
Report(rs, ds) ==
    IF ds = << >> THEN rs
    ELSE appendResult(rs, formatResult(Position(pkgs, ds[1].Pos), ds[1].Message))

Init ==
    /\ dir \in { [sources |-> s, loadErr |-> FALSE] : s \in Sources }
                 \cup { [sources |-> [units |-> << >>, rev |-> FALSE], loadErr |-> TRUE] }
    /\ pc = "start"
    /\ pkgs = << >>
    /\ pi = 0
    /\ events = << >>
    /\ ei = 0
    /\ reported = << >>
    /\ results = << >>
    /\ ret = [results |-> << >>, err |-> FALSE]
    /\ logged = << >>

\* The errors packages.Visit collects from the packages, and the lines
\* parseDir logs for them.
packageErrors(ps) == Flatten([k \in 1..Len(ps) |-> ps[k].Errors])

logErrors(errs) ==
    IF Len(errs) > 0 THEN <<"Packages contain errors:">> \o errs ELSE << >>

\* A variant of run that fails on a package with type errors.
runErrorOnTypeErrors(pass) == pass.Errors # << >>

\* The error run returns for a pass: return nil, nil.
runError(pass) == FALSE

\* parseDir up to the range loop: packages.Load and make([]string, 0).
parseDirLoad ==
    /\ pc = "start"
    /\ IF dir.loadErr
       THEN /\ ret' = [results |-> << >>, err |-> TRUE]
            /\ pc' = "done"
            /\ UNCHANGED <<pkgs, pi, results, logged>>
       ELSE /\ pkgs' = Load(dir.sources)
            /\ logged' = logErrors(packageErrors(pkgs'))
            /\ results' = << >>
            /\ pi' = 1
            /\ pc' = "range"
            /\ UNCHANGED ret
    /\ UNCHANGED <<dir, events, ei, reported>>

\* One iteration of the range loop up to the call of ptrAnalyzer.Run: the
\* passes are built and the inspect analyzer is run.
parseDirInspect ==
    /\ pc = "range"
    /\ pi <= Len(pkgs)
    /\ LET r == InspectRun(pkgs[pi])
       IN  IF r.err
           THEN /\ logged' = Append(logged, "Failed to run inspect analyzer on package "
                                                \o pkgs[pi].Name)
                /\ pi' = pi + 1
                /\ UNCHANGED <<pc, events, ei>>
           ELSE /\ events' = r.result
                /\ ei' = 1
                /\ pc' = "run"
                /\ UNCHANGED <<pi, logged>>
    /\ UNCHANGED <<dir, pkgs, reported, results, ret>>

\* run: Preorder calls the function on the next binary expression.
runVisit ==
    /\ pc = "run"
    /\ ei <= Len(events)
    /\ LET ds == Visit(events[ei])
       IN  /\ reported' = reported \o ds
           /\ results' = Report(results, ds)
    /\ ei' = ei + 1
    /\ UNCHANGED <<dir, pc, pkgs, pi, events, ret, logged>>

\* run returns when Preorder is through; on an error parseDir returns an
\* empty list and the error, else it goes on to the next package.
runReturn ==
    /\ pc = "run"
    /\ ei > Len(events)
    /\ IF runError(pkgs[pi])
       THEN /\ ret' = [results |-> << >>, err |-> TRUE]
            /\ pc' = "done"
            /\ UNCHANGED pi
       ELSE /\ pi' = pi + 1
            /\ pc' = "range"
            /\ UNCHANGED ret
    /\ UNCHANGED <<dir, pkgs, events, ei, reported, results, logged>>

\* return results, nil
parseDirReturn ==
    /\ pc = "range"
    /\ pi > Len(pkgs)
    /\ ret' = [results |-> results, err |-> FALSE]
    /\ pc' = "done"
    /\ UNCHANGED <<dir, pkgs, pi, events, ei, reported, results, logged>>

Next ==
    \/ parseDirLoad
    \/ parseDirInspect
    \/ runVisit
    \/ runReturn
    \/ parseDirReturn

Spec == Init /\ [][Next]_vars

(***************************************************************************)
(* Properties                                                              *)
(***************************************************************************)
\* The step in which run's function is called on the node events[ei].
VisitStep == pc = "run" /\ ei <= Len(events) /\ ei' = ei + 1

\* The step emits no diagnostic.
NoneEmitted == reported' = reported /\ results' = results

\* The step emits exactly one diagnostic.
OneEmitted ==
    /\ Len(reported') = Len(reported) + 1
    /\ SubSeq(reported', 1, Len(reported)) = reported
    /\ Len(results') = Len(results) + 1
    /\ SubSeq(results', 1, Len(results)) = results

LastOf(q) == q[Len(q)]

\* The files of the packages, in the order the packages and files were supplied.
FilesOf(ps) == Flatten([k \in 1..Len(ps) |-> ps[k].Syntax])

\* The binary expressions of every file of the packages.
BinaryExprsOf(ps) ==
    { e \in UNION { UNION { SubExprs(FilesOf(ps)[f].stmts[i]) :
                              i \in 1..Len(FilesOf(ps)[f].stmts) } :
                      f \in 1..Len(FilesOf(ps)) } :
        e.kind = "BinaryExpr" }

\* An unnamed primitive scalar type: int, string, bool.
IsScalar(t) == t \in {TInt, TString, TBool}

\* A type with a primitive scalar representation, whatever its name.
HasScalarRepresentation(t) == t # NoType /\ IsScalar(Underlying(t))

\* The type is a pointer type *T.
IsPointerTo(t) == t # NoType /\ t[1] = Layer("Pointer", "*")

\* Both operands of n are pointers to the same unnamed primitive scalar type.
SameScalarPointers(n) ==
    \E b \in {TInt, TString, TBool} : X(n).typ = PointerTo(b) /\ Y(n).typ = PointerTo(b)

C1_Case(n) == n.kind = "BinaryExpr" /\ n.op \in ComparisonOps /\ SameScalarPointers(n)

\* C1: a comparison (==, !=, <, >, <=, >=) of two pointers to the same
\* primitive scalar type gets exactly one diagnostic, at the position of the
\* binary expression: the call of run's function on it emits one diagnostic
\* whose Pos is the expression's Pos (not its operator's or its right
\* operand's) and whose result line names the file, line and column of that
\* position, and at the end of the run exactly one reported diagnostic has
\* that position.
C1_OneDiagnosticAtExpression ==
    [][ /\ (VisitStep /\ C1_Case(events[ei])) =>
              /\ OneEmitted
              /\ LastOf(reported').Pos = Pos(events[ei])
              /\ LastOf(reported').Pos # events[ei].at
              /\ LastOf(reported').Pos # Pos(Y(events[ei]))
              /\ LET where == Position(pkgs, Pos(events[ei]))
                 IN  /\ LastOf(results').Filename = where.Filename
                     /\ LastOf(results').Line = where.Line
                     /\ LastOf(results').Column = where.Column
        /\ (pc' = "done" /\ ~ret'.err) =>
              \A n \in BinaryExprsOf(pkgs) :
                  C1_Case(n) =>
                      Cardinality({ i \in 1..Len(reported') : reported'[i].Pos = Pos(n) }) = 1
      ]_vars

\* C1 witness: run's function has just been called on p < q with p, q of
\* type *string, and a diagnostic is in the results.
C1_Witness ==
    /\ pc = "run" /\ ei > 1
    /\ C1_Case(events[ei - 1])
    /\ events[ei - 1].op = "LSS"
    /\ X(events[ei - 1]).typ = PointerTo(TString)
    /\ Len(results) = 1

\* The type is recorded and is not a pointer type *T.
IsNonPointer(t) == t # NoType /\ ~IsPointerTo(t)

C2_Case(n) == n.kind = "BinaryExpr" /\ (IsNonPointer(X(n).typ) \/ IsNonPointer(Y(n).typ))

\* C2: a binary expression with an operand of a non-pointer static type (both
\* operands dereferenced values, or a pointer against a non-pointer) gets no
\* diagnostic, whatever the operator and the scalar type.
C2_NoDiagnosticForNonPointerOperand ==
    [][ (VisitStep /\ C2_Case(events[ei])) => NoneEmitted ]_vars

\* C2 witness: run's function has been called on *p == *q, with p, q of type
\* *int, and nothing was reported.
C2_Witness ==
    /\ pc = "run" /\ ei > 1
    /\ events[ei - 1].op = "EQL"
    /\ X(events[ei - 1]).kind = "StarExpr" /\ X(events[ei - 1]).typ = TInt
    /\ Y(events[ei - 1]).kind = "StarExpr" /\ Y(events[ei - 1]).typ = TInt
    /\ reported = << >>
    /\ results = << >>

\* The kinds of type that are not basic.
CompositeKinds ==
    {"Struct", "Array", "Slice", "Map", "Interface", "Signature", "Chan", "Pointer"}

\* The pointee of a pointer type is a struct, array, slice, map, interface,
\* function, channel or pointer, under whatever name.
HasCompositePointee(t) == IsPointerTo(t) /\ Head(Underlying(Tail(t))).ctor \in CompositeKinds

C3_Case(n) ==
    /\ n.kind = "BinaryExpr"
    /\ IsPointerTo(X(n).typ) /\ IsPointerTo(Y(n).typ)
    /\ HasCompositePointee(X(n).typ) \/ HasCompositePointee(Y(n).typ)

\* C3: a comparison of two pointers of which at least one points to a type
\* that is not basic (a struct, array, slice, map, interface, function,
\* channel or pointer) gets no diagnostic: both pointees must be basic.
C3_NoDiagnosticForCompositePointee ==
    [][ (VisitStep /\ C3_Case(events[ei])) => NoneEmitted ]_vars

\* C3 witness: run's function has been called on p == s with p of type *int
\* and s a pointer to a struct, and nothing was reported.
C3_Witness ==
    /\ pc = "run" /\ ei > 1
    /\ events[ei - 1].op = "EQL"
    /\ X(events[ei - 1]).typ = PointerTo(TInt)
    /\ Y(events[ei - 1]).typ = PointerTo(TNamedS)
    /\ reported = << >>

\* Both operands of n are pointers to types with a scalar representation.
BothPointersToBasic(n) ==
    /\ IsPointerTo(X(n).typ) /\ HasScalarRepresentation(Tail(X(n).typ))
    /\ IsPointerTo(Y(n).typ) /\ HasScalarRepresentation(Tail(Y(n).typ))

\* C4: each of ==, !=, <, >, <=, >= gets a diagnostic when both operands are
\* pointers to basic types, and a binary expression with any other operator
\* gets none, also when both operands are pointers to basic types.
C4_OperatorCoverage ==
    [][ VisitStep =>
          /\ \A o \in {"EQL", "NEQ", "LSS", "GTR", "LEQ", "GEQ"} :
                (events[ei].op = o /\ BothPointersToBasic(events[ei])) => OneEmitted
          /\ events[ei].op \notin {"EQL", "NEQ", "LSS", "GTR", "LEQ", "GEQ"} => NoneEmitted
      ]_vars

\* C4 witness: run's function has been called on p >= q, with p, q pointers
\* to basic types, and reported it.
C4_Witness ==
    /\ pc = "run" /\ ei > 1
    /\ BothPointersToBasic(events[ei - 1])
    /\ events[ei - 1].op = "GEQ"
    /\ Len(reported) = 1

C5_Case(n) ==
    /\ n.kind = "BinaryExpr" /\ n.op \in ComparisonOps
    /\ X(n).typ = NoType \/ Y(n).typ = NoType

\* C5: a comparison with an operand the type information has no type for gets
\* no diagnostic, the run neither stops nor returns an error through it, and
\* the remaining expressions are scanned: after the call the traversal is at
\* the next node, and a run that loaded its packages returns no error.
C5_UnresolvedTypeIsSkipped ==
    [][ /\ (VisitStep /\ C5_Case(events[ei])) =>
              /\ NoneEmitted
              /\ pc' = "run" /\ events' = events /\ ei' = ei + 1 /\ ret' = ret
        /\ pc' = "done" => (ret'.err <=> dir.loadErr)
      ]_vars

\* C5 witness: a comparison with an unresolved operand was visited without a
\* report, and the comparison after it in the same package was reported.
C5_Witness ==
    /\ pc = "run" /\ ei > 2
    /\ C5_Case(events[ei - 2])
    /\ C1_Case(events[ei - 1])
    /\ Len(reported) = 1
    /\ reported[1].Pos = Pos(events[ei - 1])

\* The place of a result's file in the order the packages and their files
\* were supplied.
FileRank(r) ==
    CHOOSE k \in 1..Len(FilesOf(pkgs)) : FilesOf(pkgs)[k].Name = r.Filename

\* Result a is of a file supplied before the file of b, or of the same file
\* and at a position not after the position of b.
NotAfter(a, b) ==
    \/ FileRank(a) < FileRank(b)
    \/ /\ FileRank(a) = FileRank(b)
       /\ a.Line < b.Line \/ (a.Line = b.Line /\ a.Column <= b.Column)

\* C6: the diagnostics are in source order: of two results the earlier one is
\* of a file supplied earlier or, in the same file, at a position not after
\* the later one's, also when one comparison is inside an operand of the other.
C6_DiagnosticsInSourceOrder ==
    \A i, j \in 1..Len(results) : i < j => NotAfter(results[i], results[j])

\* C6 witness: three results, the first two of a comparison and the
\* comparison inside its operand on one line, the third of a later file, the
\* files having been added to the file set in reverse order.
C6_Witness ==
    /\ Len(results) = 3
    /\ dir.sources.rev
    /\ results[1].Filename = results[2].Filename
    /\ results[1].Line = results[2].Line
    /\ results[1].Column < results[2].Column
    /\ results[3].Filename # results[1].Filename

\* C7: every diagnostic's message is "comparing pointers to basic types: L
\* and R" with L the pointee type of the left operand and R the pointee type
\* of the right operand ("int and int" for two *int), and the result line
\* carries that message; no other step emits a diagnostic.
C7_MessageNamesPointees ==
    [][ /\ (VisitStep /\ reported' # reported) =>
              /\ OneEmitted
              /\ LastOf(reported').Message =
                    "comparing pointers to basic types: "
                        \o TypeString(Tail(X(events[ei]).typ)) \o " and "
                        \o TypeString(Tail(Y(events[ei]).typ))
              /\ LastOf(results').Message = LastOf(reported').Message
              /\ (X(events[ei]).typ = PointerTo(TInt) /\ Y(events[ei]).typ = PointerTo(TInt)) =>
                    LastOf(reported').Message = "comparing pointers to basic types: int and int"
        /\ ~VisitStep => NoneEmitted
      ]_vars

\* C7 witness: p == q with p of type *int and q of type *string was reported
\* as "comparing pointers to basic types: int and string".
C7_Witness ==
    /\ pc = "run" /\ ei > 1
    /\ X(events[ei - 1]).typ = PointerTo(TInt)
    /\ Y(events[ei - 1]).typ = PointerTo(TString)
    /\ Len(reported) = 1
    /\ reported[1].Message = "comparing pointers to basic types: int and string"

\* Both operands of n are pointers to the same named type, defined (type ID
\* int) or aliased (type A = int), with a scalar underlying type.
SameNamedScalarPointers(n) ==
    \E b \in {TNamedID, TAliasA} : X(n).typ = PointerTo(b) /\ Y(n).typ = PointerTo(b)

\* C8: a pointer to a named type with a scalar underlying type counts as a
\* pointer to a basic type: comparing two of them with any of the six
\* operators gets exactly one diagnostic at the expression, as for *int.
C8_NamedScalarPointeeIsBasic ==
    [][ (VisitStep /\ events[ei].op \in ComparisonOps /\ SameNamedScalarPointers(events[ei])) =>
            /\ OneEmitted
            /\ LastOf(reported').Pos = Pos(events[ei])
      ]_vars

\* C8 witness: a != b with a, b of type *ID (type ID int) was reported.
C8_Witness ==
    /\ pc = "run" /\ ei > 1
    /\ events[ei - 1].op = "NEQ"
    /\ X(events[ei - 1]).typ = PointerTo(TNamedID)
    /\ Y(events[ei - 1]).typ = PointerTo(TNamedID)
    /\ Len(reported) = 1
    /\ reported[1].Message = "comparing pointers to basic types: example.ID and example.ID"

\* The static type is a pointer type: *T, or a named or aliased type declared
\* as a pointer (type P *int; type Q = *int).
IsPointerStaticType(t) == t # NoType /\ IsPointerTo(Underlying(t))

\* C9: for the operands of the comparison run's function is called on,
\* isPointerType is true exactly when the operand's static type is a pointer
\* type, named and aliased pointer types included, and false for untyped nil.
C9_IsPointerTypeIffPointer ==
    (pc = "run" /\ ei <= Len(events)) =>
        \A e \in {X(events[ei]), Y(events[ei])} :
            isPointerType(e) <=> IsPointerStaticType(TypeOf(e))

\* C10: the results only grow: every step leaves the list as it is or appends
\* one element, and the list parseDir returns holds every diagnostic that
\* was reported, in the order of the reports.
C10_ResultsAppendOnly ==
    [][ /\ \/ results' = results
           \/ /\ Len(results') = Len(results) + 1
              /\ SubSeq(results', 1, Len(results)) = results
        /\ pc' = "done" =>
              /\ Len(ret'.results) = Len(reported')
              /\ \A i \in 1..Len(reported') :
                    /\ ret'.results[i].Message = reported'[i].Message
                    /\ LET where == Position(pkgs', reported'[i].Pos)
                       IN  /\ ret'.results[i].Filename = where.Filename
                           /\ ret'.results[i].Line = where.Line
                           /\ ret'.results[i].Column = where.Column
      ]_vars

\* C10 witness: parseDir has returned three results of two packages.
C10_Witness ==
    /\ pc = "done"
    /\ Len(pkgs) = 2
    /\ Len(ret.results) = 3
    /\ ret.results[1].Filename # ret.results[3].Filename

\* Result list rs has a line for the position of expression n.
HasDiagnosticFor(rs, n) ==
    LET where == Position(pkgs, Pos(n))
    IN  \E i \in 1..Len(rs) :
            /\ rs[i].Filename = where.Filename
            /\ rs[i].Line = where.Line
            /\ rs[i].Column = where.Column

\* Every comparison of two pointers to basic types in package j has its line in rs.
HasDiagnosticsOf(rs, j) ==
    \A n \in BinaryExprsOf(<<pkgs[j]>>) :
        (n.op \in ComparisonOps /\ BothPointersToBasic(n)) => HasDiagnosticFor(rs, n)

====
